---- MODULE Spec2Model ----
(***************************************************************************)
(* Model of src/gen_daily_stat.py: DailyStatGenerator (load_cache,         *)
(* _fix_prevdays, generate_from_file, generate_from_dir, to_csvfile) and   *)
(* main.  One process, run to completion, possibly followed by a further   *)
(* run of the program that finds the output file of the earlier run.       *)
(*                                                                         *)
(* Dates are day ordinals (the ISO strings the code uses as keys order     *)
(* and subtract exactly as the ordinals do); an area name is a string; a   *)
(* table entry is the Python list kept under stat_data[date][area], a      *)
(* sequence <<total, new>> or, when setdefault(area, [0]) created it, the  *)
(* one-element sequence <<0>>.                                             *)
(***************************************************************************)
EXTENDS Integers, Sequences, FiniteSets, TLC

VARIABLES
    min_date,    \* self.min_date (None or a date)
    stat_data,   \* self.stat_data: date -> area -> list of ints
    area_list,   \* self.area_list
    pc,          \* position of the run: main, gendir, listdir, tocsv, done, crashed
    exc,         \* the uncaught exception that ended the run, or "none"
    log,         \* what the last step logged
    cur,         \* date of the directory entry handled last (the listing is sorted)
    args,        \* args.cache_file and args.output_file of this run
    outfile,     \* the file at the output path, which outlives the run
    emitted,     \* the lines this run wrote to its output target
    run,         \* number of the current run of the program
    seeded,      \* how this run's table was seeded: none, prev (output path), ext
    ref,         \* history: accumulator of one from-scratch run over the same entries
    track,       \* history: ref is exactly that from-scratch run
    perDateOnly, \* history: no irregularity but per-date errors so far in this run
    exStep,      \* history: number of leading entries equal to the worked example
    skipped,     \* history: kinds of lines passed over in the snapshot read last
    alone,       \* history, until the directory is entered: what load_cache of the
                 \* file at each named path gives on its own
    fix          \* the arguments of the call of _fix_prevdays made on its own, and
                 \* the table it was given

vars == <<min_date, stat_data, area_list, pc, exc, log, cur, args, outfile, emitted,
          run, seeded, ref, track, perDateOnly, exStep, skipped, alone, fix>>

----------------------------------------------------------------------------
(* Bounds of the model *)

MaxDay == 3
MaxRows == 2
MaxRuns == 2
MaxCacheLines == 2

----------------------------------------------------------------------------
(* Values *)

None == -1

Dates == 1..MaxDay

Areas == {"A", "B"}

\* An area name that starts with the under-investigation prefix.
InvArea == "Inv"

Totals == {10, 20, 25}

EmptyMap == [x \in {} |-> <<>>]

Put(f, k, v) == [x \in (DOMAIN f) \cup {k} |-> IF x = k THEN v ELSE f[x]]

Remove(f, k) == [x \in (DOMAIN f) \ {k} |-> f[x]]

SetMin(S) == CHOOSE x \in S : \A y \in S : x <= y

RECURSIVE SortedSeq(_)
SortedSeq(S) ==
    IF S = {} THEN <<>> ELSE <<SetMin(S)>> \o SortedSeq(S \ {SetMin(S)})

Range(s) == {s[i] : i \in DOMAIN s}

\* A line of a snapshot file: "area,total" when ok, anything else when not.
GoodRow(a, t) == [ok |-> TRUE, area |-> a, total |-> t]

BadRow == [ok |-> FALSE, area |-> "", total |-> 0]

\* Area A reports any of Totals; area B and the under-investigation row report 25.
SnapRows ==
    {GoodRow("A", t) : t \in Totals}
        \cup {GoodRow("B", 25), GoodRow(InvArea, 25), BadRow}

SeqsUpTo(S, n) == UNION {[1..k -> S] : k \in 0..n}

\* What open(filename) gives: the lines, or OSError.
Readable(rows) == [readable |-> TRUE, rows |-> rows]

Unreadable == [readable |-> FALSE, rows |-> <<>>]

SnapFiles == {Readable(rows) : rows \in SeqsUpTo(SnapRows, MaxRows)} \cup {Unreadable}

\* A line of a cache or output file.
Header == [kind |-> "hdr", date |-> 0, area |-> "", total |-> 0, new |-> 0]

RowLine(d, a, t, n) == [kind |-> "row", date |-> d, area |-> a, total |-> t, new |-> n]

\* A valid date followed by a field that int() rejects.
BadIntLine(d) == [kind |-> "badint", date |-> d, area |-> "", total |-> 0, new |-> 0]

\* A line that does not split into four fields.
BadLine == [kind |-> "bad", date |-> 0, area |-> "", total |-> 0, new |-> 0]

NoFile == [exists |-> FALSE, lines |-> <<>>]

File(lines) == [exists |-> TRUE, lines |-> lines]

\* The cache files a user may pass with --cache_file that no run wrote.
ExtCacheLines == {Header, BadLine, BadIntLine(1), RowLine(2, "A", 20, 10)}

ExtCacheFiles ==
    {NoFile} \cup {File(ls) : ls \in SeqsUpTo(ExtCacheLines, MaxCacheLines)}

NoPath == "none"

----------------------------------------------------------------------------
(* DailyStatGenerator *)

NewGenerator == [min_date |-> None, stat_data |-> EmptyMap, area_list |-> <<>>]

Gen == [min_date |-> min_date, stat_data |-> stat_data, area_list |-> area_list]

Lookup(f, k) == IF k \in DOMAIN f THEN f[k] ELSE EmptyMap

\* load_cache, the loop over the lines: the table and min_date_obj after them.
RECURSIVE LoadLines(_, _, _)
LoadLines(lines, sd, m) ==
    IF lines = <<>> THEN [stat_data |-> sd, min_date_obj |-> m]
    ELSE LET l == Head(lines)
             m1 == IF m = None \/ l.date < m THEN l.date ELSE m
         IN  IF l.kind \in {"hdr", "bad"}
                 \* split or fromisoformat raises ValueError: line skipped
                 THEN LoadLines(Tail(lines), sd, m)
             ELSE IF l.kind = "badint"
                 \* int() raises ValueError after min_date_obj was updated
                 THEN LoadLines(Tail(lines), sd, m1)
             ELSE LoadLines(Tail(lines),
                            Put(sd, l.date,
                                Put(Lookup(sd, l.date), l.area, <<l.total, l.new>>)),
                            m1)

\* load_cache: result "False" (OSError), "True", or the AttributeError that
\* min_date_obj.isoformat() raises when no line held a valid date.
LoadCache(g, file) ==
    IF ~file.exists THEN [g |-> g, result |-> "False"]
    ELSE LET r == LoadLines(file.lines, g.stat_data, None)
         IN  IF r.min_date_obj = None
                 THEN [g |-> [g EXCEPT !.stat_data = r.stat_data],
                       result |-> "AttributeError"]
                 ELSE [g |-> [g EXCEPT !.stat_data = r.stat_data,
                                       !.min_date = r.min_date_obj],
                       result |-> "True"]

\* Mutant of FixPrevdays: the total is lowered and the delta left as it was.
RECURSIVE FixPrevdays_KeepNew(_, _, _, _)
FixPrevdays_KeepNew(sd, date, area, total) ==
    IF date \in DOMAIN sd /\ area \in DOMAIN sd[date] /\ sd[date][area][1] > total
        THEN FixPrevdays_KeepNew(
                 Put(sd, date, Put(sd[date], area, <<total, sd[date][area][2]>>)),
                 date - 1, area, total)
        ELSE sd

\* Mutant of FixPrevdays: the new value is not clamped at 0.
RECURSIVE FixPrevdays_NoClamp(_, _, _, _)
FixPrevdays_NoClamp(sd, date, area, total) ==
    IF date \in DOMAIN sd /\ area \in DOMAIN sd[date] /\ sd[date][area][1] > total
        THEN LET e == sd[date][area]
             IN  FixPrevdays_NoClamp(
                     Put(sd, date, Put(sd[date], area, <<total, e[2] - (e[1] - total)>>)),
                     date - 1, area, total)
        ELSE sd

\* Mutant of FixPrevdays: the previous day alone is corrected (an `if` for
\* the `while`).
FixPrevdays_OneDay(sd, date, area, total) ==
    IF date \in DOMAIN sd /\ area \in DOMAIN sd[date] /\ sd[date][area][1] > total
        THEN LET e == sd[date][area]
                 d == e[2] - (e[1] - total)
                 new == IF d < 0 THEN 0 ELSE d
             IN  Put(sd, date, Put(sd[date], area, <<total, new>>))
        ELSE sd

\* Mutant of FixPrevdays: the walk steps to the next day, not the previous.
RECURSIVE FixPrevdays_Forward(_, _, _, _)
FixPrevdays_Forward(sd, date, area, total) ==
    IF date \in DOMAIN sd /\ area \in DOMAIN sd[date] /\ sd[date][area][1] > total
        THEN LET e == sd[date][area]
                 d == e[2] - (e[1] - total)
                 new == IF d < 0 THEN 0 ELSE d
             IN  FixPrevdays_Forward(Put(sd, date, Put(sd[date], area, <<total, new>>)),
                                     date + 1, area, total)
        ELSE sd

\* Mutant of FixPrevdays: a date that is absent or does not exceed is stepped
\* over and the walk goes on to the first date of the calendar.
RECURSIVE FixPrevdays_StepOver(_, _, _, _)
FixPrevdays_StepOver(sd, date, area, total) ==
    IF date < 1 THEN sd
    ELSE IF date \in DOMAIN sd /\ area \in DOMAIN sd[date] /\ sd[date][area][1] > total
        THEN LET e == sd[date][area]
                 d == e[2] - (e[1] - total)
                 new == IF d < 0 THEN 0 ELSE d
             IN  FixPrevdays_StepOver(Put(sd, date, Put(sd[date], area, <<total, new>>)),
                                      date - 1, area, total)
        ELSE FixPrevdays_StepOver(sd, date - 1, area, total)

\* _fix_prevdays: walk back from date while the entry's total exceeds total.
\* (An entry <<0>> never exceeds a total that is not negative, so its missing
\* second element is never read here.)
RECURSIVE FixPrevdays(_, _, _, _)
FixPrevdays(sd, date, area, total) ==
    IF date \in DOMAIN sd /\ area \in DOMAIN sd[date] /\ sd[date][area][1] > total
        THEN LET e == sd[date][area]
                 d == e[2] - (e[1] - total)
                 new == IF d < 0 THEN 0 ELSE d
             IN  FixPrevdays(Put(sd, date, Put(sd[date], area, <<total, new>>)),
                             date - 1, area, total)
        ELSE sd

\* Mutant of UnderInvestigation: the prefix rule is missing.
UnderInvestigation_Never(area) == FALSE

\* generate_from_file, line 85: area.startswith of the placeholder prefix.
UnderInvestigation(area) == area = InvArea

\* Mutant of RegisterArea: an area is registered on every day.
RegisterArea_Always(al, is_1st_day, area) == Append(al, area)

\* generate_from_file, lines 87-88.
RegisterArea(al, is_1st_day, area) == IF is_1st_day THEN Append(al, area) ELSE al

\* generate_from_file, one line of the snapshot.  On the first day
\* prevday_data is a fresh dict, so the baseline is 0 and nothing is fixed;
\* on a later day it is the table's own dict of prev_day, which setdefault
\* changes in place.
IngestRow(g, date, is_1st_day, row) ==
    IF ~row.ok \/ UnderInvestigation(row.area) THEN g
    ELSE LET prev_day == date - 1
             al == RegisterArea(g.area_list, is_1st_day, row.area)
             sd1 == IF is_1st_day \/ row.area \in DOMAIN g.stat_data[prev_day]
                        THEN g.stat_data
                        ELSE Put(g.stat_data, prev_day,
                                 Put(g.stat_data[prev_day], row.area, <<0>>))
             base == IF is_1st_day THEN 0 ELSE sd1[prev_day][row.area][1]
             d == row.total - base
             new == IF d < 0 THEN 0 ELSE d
             sd2 == IF d < 0 THEN FixPrevdays(sd1, prev_day, row.area, row.total)
                             ELSE sd1
             sd3 == Put(sd2, date, Put(Lookup(sd2, date), row.area, <<row.total, new>>))
         IN  [g EXCEPT !.stat_data = sd3, !.area_list = al]

RECURSIVE IngestRows(_, _, _, _)
IngestRows(g, date, is_1st_day, rows) ==
    IF rows = <<>> THEN g
    ELSE IngestRows(IngestRow(g, date, is_1st_day, Head(rows)),
                    date, is_1st_day, Tail(rows))

\* Mutant of MinDateFor: min_date follows the latest date offered.
MinDateFor_Latest(g, date) ==
    IF DOMAIN g.stat_data = {} \/ date > g.min_date THEN date ELSE g.min_date

\* Mutant of MinDateFor: min_date is set whether or not the table is empty.
MinDateFor_Always(g, date) == date

\* generate_from_file, lines 64-65.
MinDateFor(g, date) == IF DOMAIN g.stat_data = {} THEN date ELSE g.min_date

MissingPredecessor(g, date) ==
    /\ date # MinDateFor(g, date)
    /\ (date - 1) \notin DOMAIN g.stat_data

\* generate_from_file
GenerateFromFile(g, date, file) ==
    LET g1 == [g EXCEPT !.min_date = MinDateFor(g, date)]
        is_1st_day == date = g1.min_date
    IN  IF MissingPredecessor(g, date) THEN g1
        ELSE IF ~file.readable THEN g1
        ELSE IngestRows(g1, date, is_1st_day, file.rows)

\* Mutant of AlreadyPresent: the loop never finds the date in the table.
AlreadyPresent_Never(g, date) == FALSE

\* generate_from_dir, line 117: date in self.stat_data.
AlreadyPresent(g, date) == date \in DOMAIN g.stat_data

\* The entry's file is opened: the date is new and generate_from_file gets
\* past its check of the previous day.
FileOpened(g, date) ==
    ~AlreadyPresent(g, date) /\ ~MissingPredecessor(g, date)

\* generate_from_dir, one directory entry whose name gives a valid date.
HandleEntry(g, date, file) ==
    IF AlreadyPresent(g, date) THEN g ELSE GenerateFromFile(g, date, file)

\* to_csvfile, the rows in writing order.
RECURSIVE Cells(_, _)
Cells(dates, al) ==
    IF dates = <<>> THEN <<>>
    ELSE [i \in 1..Len(al) |-> [date |-> Head(dates), area |-> al[i]]]
             \o Cells(Tail(dates), al)

\* to_csvfile, the writes: st[area] raises KeyError for an area the date
\* lacks, and the format raises TypeError for a list of one element; the
\* lines written before stay written.
RECURSIVE WriteRows(_, _, _)
WriteRows(sd, cells, acc) ==
    IF cells = <<>> THEN [lines |-> acc, exc |-> "none"]
    ELSE LET c == Head(cells) IN
         IF c.area \notin DOMAIN sd[c.date] THEN [lines |-> acc, exc |-> "KeyError"]
         ELSE IF Len(sd[c.date][c.area]) < 2 THEN [lines |-> acc, exc |-> "TypeError"]
         ELSE WriteRows(sd, Tail(cells),
                        Append(acc, RowLine(c.date, c.area,
                                            sd[c.date][c.area][1], sd[c.date][c.area][2])))

ToCsv(g) ==
    WriteRows(g.stat_data, Cells(SortedSeq(DOMAIN g.stat_data), g.area_list), <<Header>>)

\* Mutant of Prune: the oldest date is kept.
Prune_Keep(g) == [g |-> g, exc |-> "none"]

\* generate_from_dir, after the loop: del self.stat_data[self.min_date].
Prune(g) ==
    IF g.min_date = None THEN [g |-> g, exc |-> "none"]
    ELSE IF g.min_date \in DOMAIN g.stat_data
        THEN [g |-> [g EXCEPT !.stat_data = Remove(g.stat_data, g.min_date)],
              exc |-> "none"]
    ELSE [g |-> g, exc |-> "KeyError"]

----------------------------------------------------------------------------
(* History *)

ExampleTotals == <<10, 25, 20>>

ExampleFile(d) == Readable(<<GoodRow("A", ExampleTotals[d])>>)

AcceptedAreas(rows) ==
    {rows[i].area : i \in {j \in DOMAIN rows : rows[j].ok /\ rows[j].area # InvArea}}

\* A snapshot with no malformed line that lists each area once and, after the
\* first day, exactly the areas of area_list.
RegularFile(g, date, file) ==
    /\ file.readable
    /\ \A i \in DOMAIN file.rows : file.rows[i].ok
    /\ AcceptedAreas(file.rows) # {}
    /\ \A i, j \in DOMAIN file.rows :
           file.rows[i].area = file.rows[j].area => i = j
    /\ date = MinDateFor(g, date) \/ AcceptedAreas(file.rows) = Range(g.area_list)

\* The kinds of lines of a snapshot that generate_from_file passes over:
\* "bad" for a malformed line, "inv" for an under-investigation row.
SkippedKinds(rows) ==
    {"bad" : i \in {j \in DOMAIN rows : ~rows[j].ok}}
        \cup {"inv" : i \in {j \in DOMAIN rows : rows[j].ok /\ rows[j].area = InvArea}}

----------------------------------------------------------------------------
(* The run *)

\* No path was named, so load_cache was not called.
NotTried == [g |-> NewGenerator, result |-> "none"]

NotLoaded == [cache |-> NotTried, output |-> NotTried]

NoFix == [start_date |-> 0, area |-> "", total |-> 0, before |-> EmptyMap]

NoArgs == [cache_file |-> NoPath, output_file |-> NoPath]

Init ==
    /\ min_date = None
    /\ stat_data = EmptyMap
    /\ area_list = <<>>
    /\ pc = "main"
    /\ exc = "none"
    /\ log = "none"
    /\ cur = 0
    /\ args = NoArgs
    /\ outfile = NoFile
    /\ emitted = <<>>
    /\ run = 1
    /\ seeded = "none"
    /\ ref = NewGenerator
    /\ track = TRUE
    /\ perDateOnly = TRUE
    /\ exStep = 0
    /\ skipped = {}
    /\ alone = NotLoaded
    /\ fix = NoFix

\* The file at the output path: what the earlier run wrote there or, when no
\* run wrote it, whatever the user left there (pre).
OutputPathFile(pre) == IF outfile.exists THEN outfile ELSE pre

\* main, lines 173-183: the wrapper load_cache returns None, so the output
\* file is loaded whenever a cache file is named, and never otherwise.
LoadCaches(cache_file, output_file, ext, pre) ==
    LET first == IF cache_file = "c" THEN ext ELSE OutputPathFile(pre)
        r1 == LoadCache(NewGenerator, first)
        r2 == LoadCache(r1.g, OutputPathFile(pre))
        kind(f) == IF f = outfile THEN "prev" ELSE "ext"
    IN  IF cache_file = NoPath
            THEN [g |-> NewGenerator, exc |-> "none", seeded |-> "none"]
        ELSE IF r1.result = "AttributeError"
            THEN [g |-> r1.g, exc |-> "AttributeError", seeded |-> "none"]
        ELSE IF output_file = NoPath
            THEN [g |-> r1.g, exc |-> "none",
                  seeded |-> IF r1.result = "False" THEN "none" ELSE kind(first)]
        ELSE IF r2.result = "AttributeError"
            THEN [g |-> r2.g, exc |-> "AttributeError", seeded |-> "none"]
        ELSE [g |-> r2.g, exc |-> "none",
              seeded |-> IF r1.result = "True" /\ kind(first) = "ext" THEN "ext"
                         ELSE IF r2.result = "True" THEN kind(OutputPathFile(pre))
                         ELSE IF r1.result = "True" THEN kind(first)
                         ELSE "none"]

\* main up to the call of generate_from_dir.  A run after the first is
\* started with --cache_file naming the output path of the earlier run.
StartRun(cache_file, output_file, ext, pre) ==
    /\ UNCHANGED fix
    /\ pc = "main"
    /\ run > 1 => cache_file = "o"
    /\ cache_file = "c" \/ ext = NoFile
    /\ (~outfile.exists /\ (cache_file = "o" \/ output_file = "o")) \/ pre = NoFile
    /\ LET r == LoadCaches(cache_file, output_file, ext, pre)
           scratch == r.g = NewGenerator /\ r.exc = "none"
           t == IF run = 1 THEN scratch
                ELSE track /\ r.seeded = "prev"
       IN  /\ min_date' = r.g.min_date
           /\ stat_data' = r.g.stat_data
           /\ area_list' = r.g.area_list
           /\ pc' = IF r.exc = "none" THEN "gendir" ELSE "crashed"
           /\ exc' = r.exc
           /\ log' = "none"
           /\ seeded' = r.seeded
           /\ track' = t
           /\ ref' = IF t THEN ref ELSE NewGenerator
           /\ perDateOnly' = (cache_file = NoPath)
           /\ exStep' = IF scratch THEN 0 ELSE -1
    /\ alone' =
           [cache |-> IF cache_file = NoPath THEN NotTried
                      ELSE LoadCache(NewGenerator,
                                     IF cache_file = "c" THEN ext ELSE OutputPathFile(pre)),
            output |-> IF output_file = NoPath THEN NotTried
                       ELSE LoadCache(NewGenerator, OutputPathFile(pre))]
    /\ args' = [cache_file |-> cache_file, output_file |-> output_file]
    /\ UNCHANGED <<cur, outfile, emitted, run, skipped>>

\* generate_from_dir, lines 100-102: csv_dir is a directory.
EnterDir ==
    /\ UNCHANGED fix
    /\ pc = "gendir"
    /\ pc' = "listdir"
    /\ log' = "none"
    /\ alone' = NotLoaded
    /\ UNCHANGED <<min_date, stat_data, area_list, exc, cur, args, outfile, emitted,
                   run, seeded, ref, track, perDateOnly, exStep, skipped>>

\* generate_from_dir returns None for a csv_dir that is no directory, and
\* main calls to_csvfile on it.
NotADirectory ==
    /\ UNCHANGED fix
    /\ pc = "gendir"
    /\ pc' = "crashed"
    /\ exc' = "AttributeError"
    /\ log' = "not a directory"
    /\ alone' = NotLoaded
    /\ perDateOnly' = FALSE
    /\ track' = FALSE
    /\ ref' = NewGenerator
    /\ exStep' = -1
    /\ UNCHANGED <<min_date, stat_data, area_list, cur, args, outfile, emitted,
                   run, seeded, skipped>>

\* What generate_from_dir and generate_from_file log for the entry.
EntryLog(g, date, file) ==
    IF AlreadyPresent(g, date) THEN "data already exists"
    ELSE IF MissingPredecessor(g, date) THEN "data for previous day not found"
    ELSE IF ~file.readable THEN "OSError"
    ELSE "read"

\* generate_from_dir, one pass of the loop for a name that gives a valid date.
ProcessEntry(date, file) ==
    /\ UNCHANGED fix
    /\ pc = "listdir"
    /\ date >= cur
    /\ FileOpened(Gen, date) \/ file = Unreadable
    /\ LET g == HandleEntry(Gen, date, file)
           r == HandleEntry(ref, date, file)
           t == track /\ date \in DOMAIN r.stat_data
       IN  /\ min_date' = g.min_date
           /\ stat_data' = g.stat_data
           /\ area_list' = g.area_list
           /\ track' = t
           /\ ref' = IF t THEN r ELSE NewGenerator
    /\ cur' = date
    /\ log' = EntryLog(Gen, date, file)
    /\ perDateOnly' =
           /\ perDateOnly
           /\ \/ date \in DOMAIN stat_data
              \/ MissingPredecessor(Gen, date)
              \/ ~file.readable
              \/ RegularFile(Gen, date, file)
    /\ exStep' = IF exStep = date - 1 /\ date \in DOMAIN ExampleTotals
                      /\ file = ExampleFile(date)
                  THEN date ELSE -1
    /\ skipped' = IF EntryLog(Gen, date, file) = "read" THEN SkippedKinds(file.rows)
                  ELSE {}
    /\ UNCHANGED <<pc, exc, args, outfile, emitted, run, seeded, alone>>

\* generate_from_dir, one pass of the loop for a name the pattern or
\* strptime rejects.
SkipEntry ==
    /\ UNCHANGED fix
    /\ pc = "listdir"
    /\ log' = "Skipping"
    /\ UNCHANGED <<min_date, stat_data, area_list, pc, exc, cur, args, outfile,
                   emitted, run, seeded, ref, track, perDateOnly, exStep, skipped, alone>>

\* generate_from_dir, lines 122-125.
PruneMinDate ==
    /\ UNCHANGED fix
    /\ pc = "listdir"
    /\ LET r == Prune(Gen)
       IN  /\ stat_data' = r.g.stat_data
           /\ pc' = IF r.exc = "none" THEN "tocsv" ELSE "crashed"
           /\ exc' = r.exc
    /\ log' = "none"
    /\ skipped' = {}
    /\ UNCHANGED <<min_date, area_list, cur, args, outfile, emitted, run, seeded,
                   ref, track, perDateOnly, exStep, alone>>

\* to_csvfile; opening a named output file may raise OSError.
ToCsvfile(opened) ==
    /\ UNCHANGED fix
    /\ pc = "tocsv"
    /\ args.output_file = NoPath => opened
    /\ log' = IF opened THEN "none" ELSE "OSError"
    /\ LET w == ToCsv(Gen)
       IN  IF opened
               THEN /\ emitted' = w.lines
                    /\ outfile' = IF args.output_file = NoPath THEN outfile
                                  ELSE File(w.lines)
                    /\ pc' = IF w.exc = "none" THEN "done" ELSE "crashed"
                    /\ exc' = w.exc
                    /\ perDateOnly' = perDateOnly
               ELSE /\ emitted' = <<>>
                    /\ outfile' = outfile
                    /\ pc' = "done"
                    /\ exc' = exc
                    /\ perDateOnly' = FALSE
    /\ UNCHANGED <<min_date, stat_data, area_list, cur, args, run, seeded,
                   ref, track, exStep, skipped, alone>>

\* The program is started again; only the output file is left of the run.
NextRun ==
    /\ UNCHANGED fix
    /\ pc \in {"done", "crashed"}
    /\ run < MaxRuns
    /\ run' = run + 1
    /\ min_date' = None
    /\ stat_data' = EmptyMap
    /\ area_list' = <<>>
    /\ pc' = "main"
    /\ exc' = "none"
    /\ log' = "none"
    /\ cur' = 0
    /\ args' = NoArgs
    /\ emitted' = <<>>
    /\ seeded' = "none"
    /\ LET t == track /\ pc = "done" /\ args.output_file # NoPath /\ emitted # <<>>
       IN  /\ track' = t
           /\ ref' = IF t THEN ref ELSE NewGenerator
    /\ perDateOnly' = TRUE
    /\ exStep' = -1
    /\ alone' = NotLoaded
    /\ UNCHANGED <<outfile, skipped>>

Next ==
    \/ \E c \in {NoPath, "c", "o"}, o \in {NoPath, "o"} :
           \E ext \in IF c = "c" THEN ExtCacheFiles ELSE {NoFile} :
               \E pre \in IF outfile.exists THEN {NoFile} ELSE ExtCacheFiles :
                   StartRun(c, o, ext, pre)
    \/ EnterDir
    \/ NotADirectory
    \/ \E date \in Dates :
           \E file \in IF FileOpened(Gen, date) THEN SnapFiles ELSE {Unreadable} :
               ProcessEntry(date, file)
    \/ SkipEntry
    \/ PruneMinDate
    \/ \E opened \in BOOLEAN : ToCsvfile(opened)
    \/ NextRun

Spec == Init /\ [][Next]_vars

----------------------------------------------------------------------------
(* _fix_prevdays on its own: the table and the arguments are drawn from    *)
(* bounded sets and the method is applied once.                            *)

\* The entries an area may have under a date: none (the empty sequence
\* stands for it), the one-element list that setdefault leaves, or a pair.
FixNews == {5, 15}

FixEntriesA == {<<>>, <<0>>} \cup {<<t, n>> : t \in Totals, n \in FixNews}

FixEntriesB == {<<>>, <<25, 5>>}

\* The table that holds, under each date, the entries that are not none; a
\* date with no entry is absent.
FixTable(f) ==
    [d \in {e \in DOMAIN f : \E a \in Areas : f[e][a] # <<>>} |->
        [a \in {x \in Areas : f[d][x] # <<>>} |-> f[d][a]]]

FixTables == {FixTable(f) : f \in [Dates -> [A : FixEntriesA, B : FixEntriesB]]}

FixTotals == Totals \cup {0}

FixInit ==
    /\ min_date = 1
    /\ stat_data \in FixTables
    /\ area_list = <<"A", "B">>
    /\ pc = "fix"
    /\ exc = "none"
    /\ log = "none"
    /\ cur = 0
    /\ args = NoArgs
    /\ outfile = NoFile
    /\ emitted = <<>>
    /\ run = 1
    /\ seeded = "none"
    /\ ref = NewGenerator
    /\ track = FALSE
    /\ perDateOnly = FALSE
    /\ exStep = -1
    /\ skipped = {}
    /\ alone = NotLoaded
    /\ \E d \in Dates, a \in Areas, t \in FixTotals :
           fix = [start_date |-> d, area |-> a, total |-> t, before |-> stat_data]

\* self._fix_prevdays(start_date, area, total)
FixPrevdaysCall ==
    /\ pc = "fix"
    /\ stat_data' = FixPrevdays(stat_data, fix.start_date, fix.area, fix.total)
    /\ pc' = "fixed"
    /\ UNCHANGED <<min_date, area_list, exc, log, cur, args, outfile, emitted, run,
                   seeded, ref, track, perDateOnly, exStep, skipped, alone, fix>>

FixNext == FixPrevdaysCall

FixSpec == FixInit /\ [][FixNext]_vars

----------------------------------------------------------------------------
(* Properties *)

TableDates == DOMAIN stat_data

IsRow(l) == l.kind = "row"

RowsOf(lines, d) == SelectSeq(lines, LAMBDA l : IsRow(l) /\ l.date = d)

RowDates(lines) == {lines[i].date : i \in {j \in DOMAIN lines : IsRow(lines[j])}}

\* The run wrote its output in full.
Serialized == pc = "done" /\ emitted # <<>>

\* C1: in a run that started from an empty table, every recorded new value
\* is >= 0 and, for every area recorded under two consecutive days of the
\* table, the later day's total minus the earlier day's total is the later
\* day's new value.
C1_DeltaMatchesTotals ==
    seeded = "none" =>
        \A d \in TableDates : \A a \in DOMAIN stat_data[d] :
            /\ Len(stat_data[d][a]) = 2 => stat_data[d][a][2] >= 0
            /\ (d - 1 \in TableDates /\ a \in DOMAIN stat_data[d - 1]) =>
                   /\ Len(stat_data[d][a]) = 2
                   /\ stat_data[d][a][1] - stat_data[d - 1][a][1] = stat_data[d][a][2]

\* C2: from an empty table, the three days of area A with totals 10, 25, 20,
\* pruned and serialized, give exactly the rows (2, A, 20, 10), (3, A, 20, 0).
C2_WorkedExample ==
    (Serialized /\ exStep = Len(ExampleTotals)) =>
        emitted = <<Header, RowLine(2, "A", 20, 10), RowLine(3, "A", 20, 0)>>

C2_Witness == Serialized /\ exStep = Len(ExampleTotals)

\* C3: a run seeded from the output of the earlier run emits, for every date
\* after the cache's earliest date, the rows that one from-scratch run over
\* all the snapshots emits for that date.
C3_CacheRunEqualsScratchRun ==
    (Serialized /\ run > 1 /\ track) =>
        \A d \in Dates :
            d > min_date =>
                RowsOf(emitted, d) = RowsOf(ToCsv(Prune(ref).g).lines, d)

\* C4: after the pruning step the table does not hold MinDate, and no row a
\* run emits carries the date MinDate.
C4_MinDateNeverEmitted ==
    /\ pc \in {"tocsv", "done"} => min_date \notin TableDates
    /\ \A i \in DOMAIN emitted : IsRow(emitted[i]) => emitted[i].date # min_date

C4_Witness == Serialized /\ seeded = "none" /\ RowDates(emitted) # {}

\* C5: a run whose only irregularities are per-date errors (a missing
\* previous day, a snapshot file that cannot be opened) does not abort.
C5_PerDateErrorsDoNotAbort == perDateOnly => pc # "crashed"

\* C6: an entry for a date that is not MinDate, offered while the previous
\* day is absent from the table, leaves the table, AreaList and MinDate as
\* they were.
C6_RejectWritesNothing ==
    [][(/\ pc = "listdir" /\ pc' = "listdir"
        /\ cur' \in Dates
        /\ stat_data # EmptyMap
        /\ cur' # min_date
        /\ cur' - 1 \notin TableDates)
       => UNCHANGED <<stat_data, area_list, min_date>>]_vars

C6_Witness ==
    /\ log = "data for previous day not found"
    /\ stat_data # EmptyMap
    /\ cur # min_date
    /\ cur \notin TableDates
    /\ cur - 1 \notin TableDates

\* C7: loading the serialized output into a fresh accumulator succeeds and
\* gives the table that was serialized, with MinDate the least date of the
\* file.
C7_CacheRoundTrip ==
    Serialized =>
        LET r == LoadCache(NewGenerator, File(emitted))
        IN  /\ r.result = "True"
            /\ r.g.stat_data = stat_data
            /\ RowDates(emitted) # {}
            /\ r.g.min_date = SetMin(RowDates(emitted))

\* C8: every entry of the table has both fields, total and new, and neither
\* is negative.
C8_EntriesComplete ==
    \A d \in TableDates : \A a \in DOMAIN stat_data[d] :
        /\ Len(stat_data[d][a]) = 2
        /\ stat_data[d][a][1] >= 0
        /\ stat_data[d][a][2] >= 0

\* C9: the serialized output is the header followed, for every date of the
\* table but MinDate in ascending order, by one row per AreaList entry in
\* AreaList order; every such date has rows.
C9_SerializationOrder ==
    Serialized =>
        /\ emitted[1] = Header
        /\ \A i \in 2..Len(emitted) : IsRow(emitted[i])
        /\ \A i, j \in 2..Len(emitted) : i < j => emitted[i].date <= emitted[j].date
        /\ RowDates(emitted) = TableDates \ {min_date}
        /\ \A d \in TableDates \ {min_date} :
               /\ Len(RowsOf(emitted, d)) = Len(area_list)
               /\ \A i \in DOMAIN area_list :
                      /\ area_list[i] \in DOMAIN stat_data[d]
                      /\ Len(stat_data[d][area_list[i]]) = 2
                      /\ RowsOf(emitted, d)[i] =
                             RowLine(d, area_list[i], stat_data[d][area_list[i]][1],
                                     stat_data[d][area_list[i]][2])

\* C10: an entry for a date the table already holds leaves the table,
\* AreaList and MinDate as they were.
C10_PresentDateSkipped ==
    [][(/\ pc = "listdir" /\ pc' = "listdir"
        /\ cur' \in TableDates)
       => UNCHANGED <<stat_data, area_list, min_date>>]_vars

C10_Witness == log = "data already exists" /\ cur \in TableDates

InvTotals == {0, 25, 40}

\* The rows with every under-investigation row reporting t instead.
SetInvTotal(rows, t) ==
    [i \in DOMAIN rows |->
        IF rows[i].ok /\ rows[i].area = InvArea THEN GoodRow(InvArea, t) ELSE rows[i]]

\* The rows without the under-investigation rows.
StripInv(rows) == SelectSeq(rows, LAMBDA r : ~(r.ok /\ r.area = InvArea))

\* The snapshots that hold an under-investigation row.
InvSnapshots == {rows \in SeqsUpTo(SnapRows, MaxRows) : "inv" \in SkippedKinds(rows)}

\* C11: an under-investigation row of a snapshot is never added to AreaList
\* and never recorded in the table, and ingesting a snapshot that holds such
\* rows, whatever total they report, gives the accumulator that ingesting
\* the snapshot without them gives (no delta, no backfill on their account).
C11_InvRowsIgnored ==
    /\ InvArea \notin Range(area_list)
    /\ \A d \in TableDates : InvArea \notin DOMAIN stat_data[d]
    /\ pc = "listdir" =>
           \A date \in {d \in Dates : d >= cur /\ FileOpened(Gen, d)} :
               \A rows \in InvSnapshots : \A t \in InvTotals :
                   GenerateFromFile(Gen, date, Readable(SetInvTotal(rows, t)))
                       = GenerateFromFile(Gen, date, Readable(StripInv(rows)))

C11_Witness ==
    /\ pc = "listdir" /\ log = "read"
    /\ "inv" \in skipped
    /\ cur \in TableDates /\ cur - 1 \in TableDates

\* C12: when a cache path is given and its file loads, the accumulator is
\* seeded from that file alone; otherwise (no cache path, or its file cannot
\* be opened) it is seeded from the file at the output path when that one
\* loads, and is empty when neither does.  (Loads that raise end the run
\* before this point.)
C12_CacheSelection ==
    pc = "gendir" =>
        Gen = IF alone.cache.result = "True" THEN alone.cache.g
              ELSE IF alone.output.result = "True" THEN alone.output.g
              ELSE NewGenerator

\* C13: once AreaList holds the areas of the first date ingested, no step of
\* the run (ingestion with or without backfill, a skipped entry, pruning,
\* serialization) changes it; an area first seen later is not appended.
C13_AreaListStable ==
    [][(run' = run /\ area_list # <<>>) => area_list' = area_list]_vars

C13_Witness ==
    /\ pc = "listdir" /\ log = "read"
    /\ area_list = <<"A">>
    /\ cur # min_date
    /\ cur \in TableDates /\ "B" \in DOMAIN stat_data[cur]

\* The entry of the call's area under d exists in the table the call was
\* given, with a total above the call's total.
FixExceeds(d) ==
    /\ d \in DOMAIN fix.before
    /\ fix.area \in DOMAIN fix.before[d]
    /\ fix.before[d][fix.area][1] > fix.total

\* d is reached by the walk back from start_date: every date from d up to
\* start_date exceeds.
FixVisited(d) == d <= fix.start_date /\ \A e \in d..fix.start_date : FixExceeds(e)

ClampedDelta(e, total) == IF e[2] - (e[1] - total) < 0 THEN 0 ELSE e[2] - (e[1] - total)

\* C14: _fix_prevdays(start_date, area, total) overwrites the area's entry
\* with <<total, max(0, new - (old total - total))>> at exactly the dates
\* reached by walking back one day at a time from start_date while the entry
\* exists with a total above total; the date where the walk stops, and
\* everything beyond it, is as before.
C14_BackwardWalk ==
    pc = "fixed" =>
        /\ DOMAIN stat_data = DOMAIN fix.before
        /\ \A d \in DOMAIN fix.before :
               /\ DOMAIN stat_data[d] = DOMAIN fix.before[d]
               /\ fix.area \in DOMAIN fix.before[d] =>
                      stat_data[d][fix.area] =
                          IF FixVisited(d)
                              THEN <<fix.total,
                                     ClampedDelta(fix.before[d][fix.area], fix.total)>>
                              ELSE fix.before[d][fix.area]

\* The walk rewrote the entries of days 3 and 2 and stopped at day 1.
C14_Witness ==
    /\ pc = "fixed"
    /\ fix.start_date = 3 /\ FixVisited(2) /\ ~FixVisited(1)
    /\ stat_data[3] # fix.before[3] /\ stat_data[2] # fix.before[2]

\* The dates at or before start_date where the call's area has an entry.
FixPresent == {d \in DOMAIN stat_data : d <= fix.start_date /\ fix.area \in DOMAIN stat_data[d]}

\* The date where the walk back from start_date stops.
FixStop == IF \E d \in 1..fix.start_date : ~FixVisited(d)
               THEN CHOOSE d \in 1..fix.start_date :
                        ~FixVisited(d) /\ \A e \in (d + 1)..fix.start_date : FixVisited(e)
               ELSE 0

\* C15 as claimed: after _fix_prevdays(D, area, T) every date <= D where the
\* area has an entry has total <= T, the totals are non-increasing walking
\* backward from D, and no new value is negative.
C15_BackfillMonotone ==
    pc = "fixed" =>
        /\ \A d \in FixPresent : stat_data[d][fix.area][1] <= fix.total
        /\ \A d \in FixPresent :
               d - 1 \in FixPresent =>
                   stat_data[d - 1][fix.area][1] <= stat_data[d][fix.area][1]
        /\ \A d \in FixPresent :
               Len(stat_data[d][fix.area]) = 2 => stat_data[d][fix.area][2] >= 0

\* C15 as amended: every date the walk visits ends with total = T and a new
\* value >= 0; the date where the walk stops, when the area has an entry
\* there, has total <= T, so the totals met walking backward from D through
\* that date are non-increasing.  Nothing is said of dates beyond it.
C15_BackfillMonotoneVisited ==
    pc = "fixed" =>
        /\ \A d \in FixPresent :
               FixVisited(d) => /\ stat_data[d][fix.area][1] = fix.total
                                /\ stat_data[d][fix.area][2] >= 0
        /\ FixStop \in FixPresent => stat_data[FixStop][fix.area][1] <= fix.total
        /\ \A d \in FixPresent :
               (d > FixStop /\ d - 1 >= FixStop /\ d - 1 \in FixPresent) =>
                   stat_data[d - 1][fix.area][1] <= stat_data[d][fix.area][1]

\* The walk clamped a new value to 0, stopped at a date with a smaller total,
\* and a date beyond it keeps a total above T.
C15_Witness ==
    /\ pc = "fixed"
    /\ fix.start_date = 3 /\ FixVisited(3) /\ FixStop = 2
    /\ stat_data[3][fix.area] = <<fix.total, 0>>
    /\ fix.before[3][fix.area][2] > 0
    /\ 2 \in FixPresent /\ Len(stat_data[2][fix.area]) = 2
    /\ 1 \in FixPresent /\ stat_data[1][fix.area][1] > fix.total

\* C16: after load_cache of a file into a fresh accumulator, min_date is the
\* least date of the rows put into the table, so it is a date of the table;
\* a line that was skipped has no part in it.
C16_MinDateOfValidRows ==
    pc = "gendir" =>
        \A r \in {alone.cache, alone.output} :
            r.result = "True" =>
                /\ r.g.min_date \in DOMAIN r.g.stat_data
                /\ r.g.min_date = SetMin(DOMAIN r.g.stat_data)

\* The snapshots that hold a malformed line.
BadSnapshots == {rows \in SeqsUpTo(SnapRows, MaxRows) : "bad" \in SkippedKinds(rows)}

\* The rows without the malformed lines.
StripBad(rows) == SelectSeq(rows, LAMBDA r : r.ok)

\* The lines of a cache file that load_cache puts into the table.
StripSkipped(lines) == SelectSeq(lines, IsRow)

\* C17: malformed lines never end the run.  load_cache of any file that can
\* be opened, also one with a header alone or with no well-formed row,
\* returns normally with the table its well-formed rows give; ingesting a
\* snapshot with malformed lines gives what ingesting its other lines gives.
C17_MalformedRowsRecoverable ==
    /\ \A r \in {alone.cache, alone.output} : r.result # "AttributeError"
    /\ pc = "main" =>
           \A file \in ExtCacheFiles :
               file.exists =>
                   LoadCache(NewGenerator, file).g.stat_data
                       = LoadCache(NewGenerator, File(StripSkipped(file.lines))).g.stat_data
    /\ pc = "listdir" =>
           \A date \in {d \in Dates : d >= cur /\ FileOpened(Gen, d)} :
               \A rows \in BadSnapshots :
                   GenerateFromFile(Gen, date, Readable(rows))
                       = GenerateFromFile(Gen, date, Readable(StripBad(rows)))

\* C18: in a run that started from an empty table and whose snapshots all
\* list the same areas, the recorded totals of every area are non-decreasing
\* in date over the dates of the table, after every step.
C18_TotalsNonDecreasing ==
    perDateOnly =>
        \A d1, d2 \in TableDates : \A a \in DOMAIN stat_data[d1] :
            (d1 < d2 /\ a \in DOMAIN stat_data[d2]) =>
                stat_data[d1][a][1] <= stat_data[d2][a][1]

\* The worked example was ingested in such a run: day 3 reported less than
\* day 2 had recorded and day 2 was lowered to it.
C18_Witness ==
    /\ perDateOnly /\ pc = "listdir"
    /\ exStep = Len(ExampleTotals)
    /\ stat_data[2]["A"][1] = 20 /\ stat_data[3]["A"][1] = 20

\* C19: _fix_prevdays(start_date, area, total) leaves as they were the set
\* of dates of the table, the areas under each date, every entry of another
\* area, every entry at a date after start_date, AreaList and MinDate.
C19_FixPrevdaysFrame ==
    [][pc = "fix" =>
           /\ area_list' = area_list
           /\ min_date' = min_date
           /\ DOMAIN stat_data' = DOMAIN stat_data
           /\ \A d \in DOMAIN stat_data :
                  /\ DOMAIN stat_data'[d] = DOMAIN stat_data[d]
                  /\ \A a \in DOMAIN stat_data[d] :
                         (a # fix.area \/ d > fix.start_date) =>
                             stat_data'[d][a] = stat_data[d][a]]_vars

\* The call rewrote day 2 of area A while day 2 holds area B as well and
\* day 3 holds a larger total of A.
C19_Witness ==
    /\ pc = "fixed"
    /\ fix.area = "A" /\ fix.start_date = 2 /\ FixVisited(2)
    /\ stat_data[2]["A"] # fix.before[2]["A"]
    /\ "B" \in DOMAIN stat_data[2]
    /\ 3 \in DOMAIN stat_data /\ "A" \in DOMAIN stat_data[3]
    /\ stat_data[3]["A"][1] > fix.total

SetMax(S) == CHOOSE x \in S : \A y \in S : y <= x

Contiguous(S) == \A d \in SetMin(S)..SetMax(S) : d \in S

\* C20 as claimed: with a non-empty table, once the date offered last was
\* skipped (it is not in the table), a later date offered in the same run
\* leaves the table as it is, and the dates of the table form one contiguous
\* range.
C20_SkipBlocksLaterDates ==
    [][(/\ pc = "listdir" /\ pc' = "listdir"
        /\ stat_data # EmptyMap
        /\ cur \in Dates /\ cur \notin TableDates
        /\ cur' > cur)
       => /\ UNCHANGED stat_data
          /\ Contiguous(TableDates)]_vars

\* C20 as amended: with a table that holds MinDate and whose dates form one
\* contiguous range, a date offered beyond the day after the table's last
\* date (a date was skipped or is missing in between) leaves the table,
\* AreaList and MinDate as they are, and the dates of the table stay one
\* contiguous range.
C20_GapBlocksLaterDates ==
    [][(/\ pc = "listdir" /\ pc' = "listdir"
        /\ stat_data # EmptyMap
        /\ min_date \in TableDates
        /\ Contiguous(TableDates))
       => /\ Contiguous(TableDates')
          /\ cur' > SetMax(TableDates) + 1 =>
                 UNCHANGED <<stat_data, area_list, min_date>>]_vars

\* Day 1 is in the table, day 2 was not recorded, and day 3 was offered.
C20_Witness ==
    /\ pc = "listdir" /\ log = "data for previous day not found"
    /\ TableDates = {1} /\ min_date = 1
    /\ cur = 3

====
